---- MODULE Spec2Model ----
(***************************************************************************)
(* Largest rectangle under a histogram: the monotonic-stack sweep of       *)
(* square_search::LargestRectangleSearcher (src/src/main.rs).              *)
(*                                                                         *)
(* One behaviour of the model is one call of                               *)
(* compute_area_of_largest_rectangle on one histogram.  A step is one      *)
(* iteration of the for loop that records a bar, or the entry, one pop,    *)
(* or the exit of the drain loop of compute_area_of_largest_rectangle_impl.*)
(***************************************************************************)
EXTENDS Integers, Sequences, FiniteSets

\* ------------------------------------------------------------------ bounds
MaxWidth == 4
MaxHeight == 3

\* i32::MAX, the largest value of the height and area type.
I32Max == 2147483647
I32Min == -I32Max - 1

\* Heights the histograms are drawn from: the small ones, and two values of
\* the height type that are large enough for width * height to leave i32.
SmallHeights == 0..MaxHeight
LargeHeights == {(I32Max \div 2) + 1, I32Max}
HeightValues == SmallHeights \cup LargeHeights

RECURSIVE SeqsUpTo(_, _)
SeqsUpTo(S, n) ==
    IF n = 0 THEN {<<>>}
    ELSE LET shorter == SeqsUpTo(S, n - 1)
         IN  shorter \cup {Append(s, e) : s \in {t \in shorter : Len(t) = n - 1}, e \in S}

Histograms == SeqsUpTo(HeightValues, MaxWidth)

VARIABLES
    histogram,                            \* ConcreteHistogram.bars
    recorded_bars_of_increasing_height,   \* the searcher's Vec<i32>
    x_pos,                                \* the for loop's cursor
    area_of_largest_rectangle,            \* the running maximum of the scan
    impl_area,                            \* the running maximum of one drain
    candidate,                            \* width, height and area of the last rectangle
    pc,                                   \* "scan", "drain", "done" or a panic
    vec_ops                               \* the push and pop calls made so far

vars == <<histogram, recorded_bars_of_increasing_height, x_pos,
          area_of_largest_rectangle, impl_area, candidate, pc, vec_ops>>

\* ----------------------------------------------------------- i32 arithmetic
max(a, b) == IF a >= b THEN a ELSE b

\* a + b in i32, wrapping (every intermediate value stays inside i32).
wrapping_add(a, b) ==
    IF b > 0 /\ a > I32Max - b THEN ((a - I32Max) - 1) + ((b - I32Max) - 1)
    ELSE IF b < 0 /\ a < I32Min - b THEN ((a + I32Max) + 1) + ((b + I32Max) + 1)
    ELSE a + b

wrapping_neg(a) == IF a = I32Min THEN I32Min ELSE -a

RECURSIVE wrapping_mul_nat(_, _)
wrapping_mul_nat(n, b) ==
    IF n = 0 THEN 0 ELSE wrapping_add(wrapping_mul_nat(n - 1, b), b)

\* a * b in i32 as a build without overflow checks computes it (a is a width,
\* a small number; b a height).
wrapping_mul(a, b) ==
    IF a >= 0 THEN wrapping_mul_nat(a, b) ELSE wrapping_neg(wrapping_mul_nat(-a, b))

\* a * b leaves i32 (both factors non-negative: heights by precondition, the
\* width because every recorded position is left of the cursor): a build with
\* overflow checks panics with "attempt to multiply with overflow".
mul_overflows(a, b) == a > 0 /\ b > 0 /\ b > I32Max \div a

\* ------------------------------------------------------------ the histogram
\* LargestRectangleSearcher::width
width == Len(histogram)

\* ConcreteHistogram::height_at: bars[horizontal_position], which panics
\* unless the index is inside the Vec.
bars_index_in_bounds(i) == i >= 0 /\ i < Len(histogram)
histogram_height_at(i) == histogram[i + 1]

\* LargestRectangleSearcher::height_at: its two assertions, its condition and
\* its value.
height_at_asserts(x) == x >= -1 /\ x <= width
\* Mutant: the condition written with x > 0, so that bar 0 reads as height 0.
is_real_position_from_one(x) == x > 0 /\ x < width
is_real_position(x) == x >= 0 /\ x < width
height_at(x) == IF is_real_position(x) THEN histogram_height_at(x) ELSE 0
height_at_ok(x) ==
    /\ height_at_asserts(x)
    /\ is_real_position(x) => bars_index_in_bounds(x)

\* ---------------------------------------------------------- the Vec helpers
last_element(ints) == ints[Len(ints)]
second_last_element(ints) == ints[Len(ints) - 1]

\* The calls made on the Vec, as data: what a handler does to the stack and
\* what it adds to vec_ops both come from the same list of calls.
vec_push(e) == [call |-> "push", value |-> e]
vec_pop == [call |-> "pop", value |-> 0]

\* replace_last_element: ints.pop(); ints.push(new_last_element)
replace_last_element(new_last_element) == <<vec_pop, vec_push(new_last_element)>>

\* Vec::push and Vec::pop (pop of an empty Vec returns None and changes nothing).
apply_call(ints, c) ==
    IF c.call = "push" THEN Append(ints, c.value)
    ELSE IF Len(ints) = 0 THEN ints
    ELSE SubSeq(ints, 1, Len(ints) - 1)

RECURSIVE apply_calls(_, _)
apply_calls(ints, calls) ==
    IF calls = <<>> THEN ints
    ELSE apply_calls(apply_call(ints, Head(calls)), Tail(calls))

\* The entries the calls add to vec_ops: the call, the position pushed or
\* popped, the cursor at the time and the function that made the call.
RECURSIVE log_calls(_, _, _, _)
log_calls(ints, calls, at, by) ==
    IF calls = <<>> THEN <<>>
    ELSE LET c == Head(calls)
             entry == IF c.call = "push"
                      THEN <<[call |-> "push", pos |-> c.value, at |-> at, by |-> by]>>
                      ELSE IF Len(ints) = 0 THEN <<>>
                      ELSE <<[call |-> "pop", pos |-> last_element(ints), at |-> at, by |-> by]>>
         IN  entry \o log_calls(apply_call(ints, c), Tail(calls), at, by)

\* ------------------------------------------------------------- the searcher
\* LargestRectangleSearcher::new
new_recorded_bars == <<-1>>

stack_not_empty == Len(recorded_bars_of_increasing_height) > 0

height_of_last_recorded_bar ==
    height_at(last_element(recorded_bars_of_increasing_height))

\* What must hold for height_of_last_recorded_bar to return: last_element's
\* assertion and height_at's.
height_of_last_recorded_bar_ok ==
    /\ stack_not_empty
    /\ height_at_ok(last_element(recorded_bars_of_increasing_height))

new_bar_is_higher(new_x_pos) == height_at(new_x_pos) > height_of_last_recorded_bar
new_bar_is_same_size(new_x_pos) == height_at(new_x_pos) = height_of_last_recorded_bar
new_bar_is_not_lower(new_x_pos) ==
    new_bar_is_higher(new_x_pos) \/ new_bar_is_same_size(new_x_pos)

\* The assertions passed while the new bar is compared with the last recorded.
compare_ok(new_x_pos) ==
    /\ stack_not_empty
    /\ height_at_ok(new_x_pos)
    /\ height_of_last_recorded_bar_ok

\* adjust_recorded_bars_of_increasing_height: its assertion and its calls.
adjust_ok(pos) == compare_ok(pos) /\ new_bar_is_not_lower(pos)
\* Mutant: the bar is always pushed, an equal one too.
adjust_always_push(pos) == <<vec_push(pos)>>
\* Mutant: the else is missing, so a higher bar is pushed and then replaced
\* by itself.
adjust_push_then_replace(pos) ==
    IF new_bar_is_higher(pos) THEN <<vec_push(pos)>> \o replace_last_element(pos)
    ELSE replace_last_element(pos)
adjust_recorded_bars_of_increasing_height(pos) ==
    IF new_bar_is_higher(pos) THEN <<vec_push(pos)>> ELSE replace_last_element(pos)

\* compute_area_of_rectangle_at_last_recorded_bar: its assertions, the two
\* factors, and the product.
rectangle_ok ==
    /\ Len(recorded_bars_of_increasing_height) >= 2
    /\ height_of_last_recorded_bar_ok
\* Mutant: the width without the - 1, so that it counts the position below.
rectangle_width_off_by_one(pos) ==
    pos - second_last_element(recorded_bars_of_increasing_height)
rectangle_width(pos) == pos - second_last_element(recorded_bars_of_increasing_height) - 1
rectangle_height == height_of_last_recorded_bar
compute_area_of_rectangle_at_last_recorded_bar(pos) ==
    wrapping_mul(rectangle_width(pos), rectangle_height)

\* The condition of the while loop of compute_area_of_largest_rectangle_impl.
\* Mutant: the loop written with >=, so that it pops bars of equal height.
last_recorded_bar_is_not_lower(pos) == height_of_last_recorded_bar >= height_at(pos)
last_recorded_bar_is_higher(pos) == height_of_last_recorded_bar > height_at(pos)
drain_condition_ok(pos) == height_of_last_recorded_bar_ok /\ height_at_ok(pos)

\* The for loop's range, 0..self.width() + 1, and its step.
\* Mutant: the range written 0..self.width(), which never visits width.
in_scan_range_without_end(pos) == pos < width
in_scan_range(pos) == pos < width + 1
next_x_pos(pos) == pos + 1

\* ------------------------------------------------------------------- state
Init ==
    /\ histogram \in Histograms
    /\ recorded_bars_of_increasing_height = new_recorded_bars
    /\ x_pos = 0
    /\ area_of_largest_rectangle = 0
    /\ impl_area = 0
    /\ candidate = [width |-> 0, height |-> 0, area |-> 0]
    /\ pc = "scan"
    /\ vec_ops = <<>>

\* A failed assert!, or an index outside the Vec: the search is abandoned.
assert_panic ==
    /\ pc' = "assert_panic"
    /\ UNCHANGED <<histogram, recorded_bars_of_increasing_height, x_pos,
                   area_of_largest_rectangle, impl_area, candidate, vec_ops>>

\* The calls of adjust_recorded_bars_of_increasing_height(x_pos), made.
record_x_pos ==
    LET calls == adjust_recorded_bars_of_increasing_height(x_pos)
    IN  /\ recorded_bars_of_increasing_height' =
               apply_calls(recorded_bars_of_increasing_height, calls)
        /\ vec_ops' = vec_ops \o
               log_calls(recorded_bars_of_increasing_height, calls, x_pos, "adjust")

\* One iteration of the for loop whose bar is not lower than the last
\* recorded bar: the bar is recorded.
RecordBar ==
    /\ pc = "scan"
    /\ in_scan_range(x_pos)
    /\ IF ~compare_ok(x_pos) THEN assert_panic
       ELSE /\ new_bar_is_not_lower(x_pos)
            /\ record_x_pos
            /\ x_pos' = next_x_pos(x_pos)
            /\ UNCHANGED <<histogram, area_of_largest_rectangle, impl_area,
                           candidate, pc>>

\* One iteration of the for loop whose bar is lower: the call of
\* compute_area_of_largest_rectangle_impl, up to its while loop.
BeginClosing ==
    /\ pc = "scan"
    /\ in_scan_range(x_pos)
    /\ compare_ok(x_pos)
    /\ ~new_bar_is_not_lower(x_pos)
    /\ impl_area' = 0
    /\ pc' = "drain"
    /\ UNCHANGED <<histogram, recorded_bars_of_increasing_height, x_pos,
                   area_of_largest_rectangle, candidate, vec_ops>>

\* One iteration of the while loop: the rectangle at the last recorded bar
\* is measured and the bar is popped.
PopRecordedBar ==
    /\ pc = "drain"
    /\ IF ~drain_condition_ok(x_pos) THEN assert_panic
       ELSE /\ last_recorded_bar_is_higher(x_pos)
            /\ IF ~rectangle_ok THEN assert_panic
               ELSE LET area == compute_area_of_rectangle_at_last_recorded_bar(x_pos)
                    IN  /\ candidate' = [width  |-> rectangle_width(x_pos),
                                         height |-> rectangle_height,
                                         area   |-> area]
                        /\ impl_area' = max(impl_area, area)
                        /\ recorded_bars_of_increasing_height' =
                               apply_calls(recorded_bars_of_increasing_height, <<vec_pop>>)
                        /\ vec_ops' = vec_ops \o
                               log_calls(recorded_bars_of_increasing_height, <<vec_pop>>,
                                         x_pos, "drain")
                        /\ UNCHANGED <<histogram, x_pos, area_of_largest_rectangle, pc>>

\* The same iteration in a build with overflow checks, when the product
\* leaves i32: the multiplication panics.
PopOverflowPanic ==
    /\ pc = "drain"
    /\ drain_condition_ok(x_pos)
    /\ last_recorded_bar_is_higher(x_pos)
    /\ rectangle_ok
    /\ mul_overflows(rectangle_width(x_pos), rectangle_height)
    /\ pc' = "overflow_panic"
    /\ UNCHANGED <<histogram, recorded_bars_of_increasing_height, x_pos,
                   area_of_largest_rectangle, impl_area, candidate, vec_ops>>

\* The while loop ends: x_pos is recorded, the drain's maximum is returned
\* and folded into the scan's, and the for loop steps.
EndClosing ==
    /\ pc = "drain"
    /\ drain_condition_ok(x_pos)
    /\ ~last_recorded_bar_is_higher(x_pos)
    /\ IF ~adjust_ok(x_pos) THEN assert_panic
       ELSE /\ record_x_pos
            /\ area_of_largest_rectangle' = max(area_of_largest_rectangle, impl_area)
            /\ x_pos' = next_x_pos(x_pos)
            /\ pc' = "scan"
            /\ UNCHANGED <<histogram, impl_area, candidate>>

\* The for loop is over: area_of_largest_rectangle is returned.
Return ==
    /\ pc = "scan"
    /\ ~in_scan_range(x_pos)
    /\ pc' = "done"
    /\ UNCHANGED <<histogram, recorded_bars_of_increasing_height, x_pos,
                   area_of_largest_rectangle, impl_area, candidate, vec_ops>>

Next ==
    \/ RecordBar
    \/ BeginClosing
    \/ PopRecordedBar
    \/ PopOverflowPanic
    \/ EndClosing
    \/ Return

Spec == Init /\ [][Next]_vars

\* ================================================================== claims
\* The histogram read directly: the height of the bar at p, and 0 at the two
\* virtual positions -1 and width.
BarHeight(p) == IF p >= 0 /\ p < Len(histogram) THEN histogram[p + 1] ELSE 0

Stack == recorded_bars_of_increasing_height
Top(s) == s[Len(s)]
Below(s) == s[Len(s) - 1]
AllButTop(s) == SubSeq(s, 1, Len(s) - 1)

AllHeightsSmall == \A i \in 1..Len(histogram) : histogram[i] \in SmallHeights
AllHeightsZero == \A i \in 1..Len(histogram) : histogram[i] = 0
IsConstantHistogram == \A i, j \in 1..Len(histogram) : histogram[i] = histogram[j]

\* p = a * b for a >= 0, stated without forming the product.
IsProduct(p, a, b) == IF a = 0 THEN p = 0 ELSE p % a = 0 /\ p \div a = b

SetMax(S) == CHOOSE m \in S : \A e \in S : e <= m
SetMin(S) == CHOOSE m \in S : \A e \in S : e >= m

\* The exhaustive search: the maximum over i <= j of (j - i + 1) * min(h[i..j]).
BruteForceArea(h) ==
    LET areas == {(j - i + 1) * SetMin({h[k] : k \in i..j}) :
                      <<i, j>> \in {ij \in (1..Len(h)) \X (1..Len(h)) : ij[1] <= ij[2]}}
    IN  IF areas = {} THEN 0 ELSE SetMax(areas)

\* C1: for every histogram of width <= MaxWidth and heights <= MaxHeight the
\* returned area is the maximum over all i <= j of (j - i + 1) * min(h[i..=j]),
\* and 0 when there is no such pair.
C1_ScanEqualsBruteForce ==
    (pc = "done" /\ AllHeightsSmall)
        => area_of_largest_rectangle = BruteForceArea(histogram)

\* C1 witness: the trough test, [2, 1, 2], has returned 3.
C1_Witness ==
    pc = "done" /\ histogram = <<2, 1, 2>> /\ area_of_largest_rectangle = 3

\* C2: for every histogram with non-negative heights the returned area is
\* >= 0, and it is 0 exactly when the width is 0 or every height is 0.
C2_ResultZeroIffNoArea ==
    pc = "done" =>
        /\ area_of_largest_rectangle >= 0
        /\ (area_of_largest_rectangle = 0) <=> (width = 0 \/ AllHeightsZero)

\* C2 restricted to the histograms none of whose rectangles leaves i32.
C2_ResultZeroIffNoAreaSmall ==
    (pc = "done" /\ AllHeightsSmall) =>
        /\ area_of_largest_rectangle >= 0
        /\ (area_of_largest_rectangle = 0) <=> (width = 0 \/ AllHeightsZero)

\* C3: a constant histogram of w bars of height h returns h * w.
C3_ConstantHistogram ==
    (pc = "done" /\ IsConstantHistogram) =>
        IsProduct(area_of_largest_rectangle, width, BarHeight(0))

\* C3 restricted to the histograms none of whose rectangles leaves i32.
C3_ConstantHistogramSmall ==
    (pc = "done" /\ IsConstantHistogram /\ AllHeightsSmall) =>
        area_of_largest_rectangle = width * BarHeight(0)

\* C4: every candidate area computed during the scan is the mathematical
\* product of its width and its height: the multiplication neither panics
\* on overflow nor wraps around i32.
C4_NoOverflow ==
    /\ pc # "overflow_panic"
    /\ IsProduct(candidate.area, candidate.width, candidate.height)

\* C5: no guard is violated: no assertion fails; every position on the stack
\* and the cursor are in [-1, width] whenever a height is queried; the stack
\* is non-empty whenever its top is read, and has two elements whenever a
\* rectangle is measured.
C5_NoGuardViolated ==
    /\ pc # "assert_panic"
    /\ pc \in {"scan", "drain"} =>
        /\ Len(Stack) >= 1
        /\ \A i \in 1..Len(Stack) : Stack[i] >= -1 /\ Stack[i] <= width
        /\ pc = "scan" => x_pos >= 0 /\ x_pos <= width + 1
        /\ pc = "drain" => x_pos >= 0 /\ x_pos <= width
        /\ (pc = "drain" /\ BarHeight(Top(Stack)) > BarHeight(x_pos)) => Len(Stack) >= 2

\* C5 witness: a drain is about to measure a rectangle with a stack of three.
C5_Witness ==
    /\ pc = "drain"
    /\ Len(Stack) = 3
    /\ BarHeight(Top(Stack)) > BarHeight(x_pos)

\* A step that measures a rectangle and pops a bar; a step that records the
\* cursor (from the scan, or at the end of a drain); a step that enters a drain.
IsPopStep == pc = "drain" /\ pc' = "drain"
IsRecordStep == pc \in {"scan", "drain"} /\ pc' = "scan" /\ x_pos' # x_pos
IsEnterDrainStep == pc = "scan" /\ pc' = "drain"

\* The rectangle of height BarHeight(p) between q and x, both excluded, fits
\* under the bars and can be widened on neither side.
IsMaximalRectangle(q, p, x) ==
    /\ \A i \in (q + 1)..(x - 1) : BarHeight(i) >= BarHeight(p)
    /\ BarHeight(q) < BarHeight(p)
    /\ BarHeight(x) < BarHeight(p)

\* C6: whenever a candidate is computed at cursor x for the top p with q
\* immediately below it, the candidate equals height(p) * (x - q - 1), every
\* bar strictly between q and x is at least as high as p, and the bars at q
\* and at x are strictly lower.
C6_CandidateIsMaximalRectangle ==
    [][IsPopStep =>
          /\ IsProduct(candidate'.area, x_pos - Below(Stack) - 1, BarHeight(Top(Stack)))
          /\ IsMaximalRectangle(Below(Stack), Top(Stack), x_pos)]_vars

\* C6 without the value of the product: the candidate's factors are
\* height(p) and x - q - 1, and the rectangle is maximal.
C6_CandidateFactorsAndMaximality ==
    [][IsPopStep =>
          /\ candidate'.width = x_pos - Below(Stack) - 1
          /\ candidate'.height = BarHeight(Top(Stack))
          /\ IsMaximalRectangle(Below(Stack), Top(Stack), x_pos)]_vars

\* C7: in every state of a search, between the pops of a drain too, the
\* heights of the recorded positions are non-decreasing from bottom to top.
C7_StackMonotonic ==
    \A i \in 1..(Len(Stack) - 1) : BarHeight(Stack[i + 1]) >= BarHeight(Stack[i])

\* C7 witness: three recorded positions in the middle of a drain.
C7_Witness == pc = "drain" /\ Len(Stack) >= 3

\* The entries of vec_ops about position p.
Pushes(p) == {i \in 1..Len(vec_ops) : vec_ops[i].call = "push" /\ vec_ops[i].pos = p}
Pops(p) == {i \in 1..Len(vec_ops) : vec_ops[i].call = "pop" /\ vec_ops[i].pos = p}
RealPositions == 0..(width - 1)
OnStack(p) == \E i \in 1..Len(Stack) : Stack[i] = p

\* p was on the stack when the cursor reached width: it was popped at no
\* earlier cursor (every real position is pushed at its own cursor).
OnStackAtFlush(p) == \A i \in Pops(p) : vec_ops[i].at = width
DrainedAtFlush(p) ==
    \E i \in Pops(p) : vec_ops[i].at = width /\ vec_ops[i].by = "drain"
ReplacedAtFlush(p) ==
    \E i \in Pops(p) : vec_ops[i].at = width /\ vec_ops[i].by = "adjust"

\* C8 as stated: every real position still on the stack when the cursor
\* reaches width is popped by the drain, which measures its rectangle, and
\* none is on the stack when the result is returned.
C8_EveryBarDrainedAtFlush ==
    pc = "done" =>
        /\ \A p \in RealPositions : ~OnStack(p)
        /\ \A p \in RealPositions : OnStackAtFlush(p) => DrainedAtFlush(p)

\* C8 amended: every real position of height > 0 still on the stack when the
\* cursor reaches width is popped by the drain, which measures its rectangle;
\* one of height 0 is replaced by width and no rectangle is measured for it;
\* none is on the stack when the result is returned.
C8_FinalFlush ==
    pc = "done" =>
        /\ \A p \in RealPositions : ~OnStack(p)
        /\ \A p \in RealPositions :
              OnStackAtFlush(p) =>
                  IF BarHeight(p) > 0 THEN DrainedAtFlush(p) /\ ~ReplacedAtFlush(p)
                  ELSE ReplacedAtFlush(p) /\ ~DrainedAtFlush(p)

\* C8 witness: [0, 2] has returned; at the flush position 1 was drained and
\* position 0, of height 0, was replaced.
C8_Witness ==
    /\ pc = "done"
    /\ histogram = <<0, 2>>
    /\ DrainedAtFlush(1)
    /\ ReplacedAtFlush(0)

\* C9: at each cursor step x: a bar strictly higher than the top is pushed;
\* an equal one replaces the top; for a lower one the drain is entered, pops
\* only bars higher than heightAt(x), ends only when none is left, and then
\* records x by the same rule. After the step the top is x.
C9_TieBreak ==
    [][/\ (pc = "scan" /\ IsRecordStep) => BarHeight(x_pos) >= BarHeight(Top(Stack))
       /\ IsEnterDrainStep =>
              BarHeight(x_pos) < BarHeight(Top(Stack)) /\ Stack' = Stack /\ x_pos' = x_pos
       /\ IsPopStep =>
              /\ BarHeight(Top(Stack)) > BarHeight(x_pos)
              /\ Stack' = AllButTop(Stack)
              /\ x_pos' = x_pos
       /\ (pc = "drain" /\ IsRecordStep) =>
              \A i \in 1..Len(Stack) : BarHeight(Stack[i]) <= BarHeight(x_pos)
       /\ IsRecordStep =>
              /\ BarHeight(x_pos) > BarHeight(Top(Stack)) => Stack' = Append(Stack, x_pos)
              /\ BarHeight(x_pos) = BarHeight(Top(Stack)) =>
                     Stack' = Append(AllButTop(Stack), x_pos)
              /\ Top(Stack') = x_pos
              /\ x_pos' = x_pos + 1]_vars

\* C9 witness: [1, 1, 2, 1] has returned: 0 and 2 were pushed, 1 replaced 0,
\* and at 3 the drain popped 2 and 3 replaced 1.
C9_Witness ==
    /\ pc = "done"
    /\ histogram = <<1, 1, 2, 1>>
    /\ \E i \in Pops(0) : vec_ops[i].by = "adjust" /\ vec_ops[i].at = 1
    /\ \E i \in Pops(2) : vec_ops[i].by = "drain" /\ vec_ops[i].at = 3
    /\ \E i \in Pops(1) : vec_ops[i].by = "adjust" /\ vec_ops[i].at = 3

\* C10: every cursor position is put on the stack at most once, at its own
\* step, and taken off at most once, at a later step; the pushes and pops
\* of a search number at most 2 * (width + 1).
C10_EachPositionOnce ==
    /\ \A p \in 0..width :
          /\ Cardinality(Pushes(p)) <= 1
          /\ Cardinality(Pops(p)) <= 1
          /\ \A i \in Pushes(p) : vec_ops[i].at = p
          /\ \A i \in Pops(p) : vec_ops[i].at > p /\ \E j \in Pushes(p) : j < i
    /\ \A i \in 1..Len(vec_ops) : vec_ops[i].call = "push" => vec_ops[i].pos \in 0..width
    /\ Len(vec_ops) <= 2 * (width + 1)

\* C10 witness: a search of four bars has returned after 2 * (4 + 1) calls.
C10_Witness == pc = "done" /\ width = 4 /\ Len(vec_ops) = 2 * (width + 1)

====
